---- MODULE Spec2Model ----
(***************************************************************************)
(* The drag-node behaviour of G6 (DragNode) as a state machine: one action *)
(* per event handler and per timer callback, the class's private fields as *)
(* variables, and the graph runtime it drives as the record `graph`.       *)
(*                                                                         *)
(* Lengths are in hundredths of a pixel (Scale units per pixel), so that   *)
(* the 0.01 px the pointer-up handler adds is the integer 1.               *)
(***************************************************************************)
EXTENDS Integers, Sequences, FiniteSets, Bags, TLC

\* ------------------------------------------------------------------ bounds

\* Pointer-downs the environment performs in one behaviour.
MaxGestures == 2

\* Pointermoves the environment performs in one behaviour.
MaxMoves == 3

\* Escape key presses in one behaviour.
MaxEscapes == 1

\* Pointermoves the environment performs in one behaviour of a behavior built
\* with updateComboStructure on.
MaxDropMoves == 2

\* ------------------------------------------------------- program constants

\* One pixel: the threshold of onPointerMove is 1 (pixel).
Scale == 100

\* The offset onPointerUp adds to each delta: 0.01 pixel.
UpOffset == 1

\* DEFAULT_OPTIONS.throttle, in milliseconds.
DefaultThrottle == 16

\* Half the side of a node's rendered bounding box.
NodeR == 1000

\* ------------------------------------------------------------- the graph

Nodes == {"a", "b", "c"}

Combos == {"c1"}

Edges == {"ab", "bc"}

Items == Nodes \cup Combos \cup Edges

EdgeSource == [e \in Edges |-> IF e = "ab" THEN "a" ELSE "b"]

EdgeTarget == [e \in Edges |-> IF e = "ab" THEN "b" ELSE "c"]

\* Edges drawn as polylines with obstacle avoidance (isPolylineWithObstacleAvoidance).
AvoidEdges == {"ab", "bc"}

\* The order in which the graph lists its nodes and its edges.
NodeOrder == <<"a", "b", "c">>

EdgeOrder == <<"ab", "bc">>

\* graph.findIdByState('node', selectedState, true): the selected nodes.
SelectedState == <<"b", "c">>

\* Nodes flagged preventPolylineEdgeOverlap (isPointPreventPolylineOverlap).
PreventOverlapNodes == {"a"}

\* The sub-shapes an item is made of.
ShapeIds == {"keyShape", "labelShape"}

\* `undefined` where a list of shape ids is expected.
UndefShapes == {"undefined"}

\* No item under the pointer, no parent.
NoId == "-"

\* Node c lies in combo c1; a, b and c1 have no parent.
InitParent == [i \in Nodes \cup Combos |-> IF i = "c" THEN "c1" ELSE NoId]

InitPos ==
  [n \in Nodes |->
     CASE n = "a" -> [x |-> 200 * Scale, y |-> 100 * Scale]
       [] n = "b" -> [x |-> 100 * Scale, y |-> 200 * Scale]
       [] OTHER   -> [x |-> 300 * Scale, y |-> 200 * Scale]]

\* The pointer positions the environment produces (canvas coordinates): half
\* a pixel from the pointer-down position in both axes, 49.5 pixels left of
\* it, and 29.5 pixels above it.
Points ==
  { [x |-> Scale \div 2, y |-> Scale \div 2],
    [x |-> (Scale \div 2) - 50 * Scale, y |-> Scale \div 2],
    [x |-> Scale \div 2, y |-> (Scale \div 2) - 30 * Scale] }

\* The ids a pointermove may carry as event.itemId: a node, an edge, or none.
MoveItemIds == {"a", "bc", NoId}

\* -------------------------------------------------------------- helpers

Abs(n) == IF n < 0 THEN -n ELSE n

Range(s) == {s[i] : i \in 1..Len(s)}

RECURSIVE Uniq(_)
Uniq(s) ==
  IF s = <<>> THEN <<>>
  ELSE LET r == Uniq(SubSeq(s, 1, Len(s) - 1))
           l == s[Len(s)]
       IN IF l \in Range(r) THEN r ELSE Append(r, l)

RECURSIVE Concat(_)
Concat(ss) == IF ss = <<>> THEN <<>> ELSE Head(ss) \o Concat(Tail(ss))

Ids(seq) == [i \in 1..Len(seq) |-> seq[i].id]

\* Map<ID, string[]>: get, set, delete.
CacheGet(cache, id) == IF id \in DOMAIN cache THEN cache[id] ELSE UndefShapes

CacheSet(cache, id, v) ==
  [k \in (DOMAIN cache) \cup {id} |-> IF k = id THEN v ELSE cache[k]]

CacheDelete(cache, id) == [k \in (DOMAIN cache) \ {id} |-> cache[k]]

EmptyCache == [k \in {} |-> {}]

\* ------------------------------------------------- the graph runtime
\* The graph is the record [pos, visible, parent, transients, tpos, delegate]:
\* node positions, each item's visible sub-shapes, each node's and combo's
\* parent combo, the ids drawn on the transient layer, where the transient
\* copy of each node is drawn (<<>> when it has no position of its own), and
\* the delegate rectangle (<<>> when it is not drawn).

\* graph.getNodeData(id) is defined.
HasNodeData(id) == id \in Nodes

\* graph.getRelatedEdgesData(id): the edges incident to a node, none for another id.
RelatedEdgesData(id) ==
  SelectSeq(EdgeOrder, LAMBDA e : EdgeSource[e] = id \/ EdgeTarget[e] = id)

\* graph.getNeighborNodesData(id, 'both').
NeighborNodesData(id) ==
  SelectSeq(NodeOrder,
            LAMBDA n : \E e \in Edges :
                          \/ EdgeSource[e] = id /\ EdgeTarget[e] = n
                          \/ EdgeTarget[e] = id /\ EdgeSource[e] = n)

\* graph.getItemVisibleShapeIds(id).
GetItemVisibleShapeIds(g, id) == g.visible[id]

\* graph.getItemVisible(id).
GetItemVisible(g, id) == g.visible[id] # {}

\* graph.hideItem(id, {keepRelated}) for one id: every sub-shape of the item
\* is hidden, and with it the incident edges of a node unless keepRelated.
HideOne(g, id, keepRelated) ==
  LET also == IF keepRelated \/ id \notin Nodes THEN {} ELSE Range(RelatedEdgesData(id))
  IN [g EXCEPT !.visible =
        [i \in Items |-> IF i = id \/ i \in also THEN {} ELSE g.visible[i]]]

\* graph.hideItem(ids, {keepRelated}).
RECURSIVE HideItem(_, _, _)
HideItem(g, ids, keepRelated) ==
  IF ids = <<>> THEN g
  ELSE HideItem(HideOne(g, Head(ids), keepRelated), Tail(ids), keepRelated)

\* graph.showItem(id, {shapeIds}): the named sub-shapes are shown, every
\* sub-shape when shapeIds is undefined.
ShowItem(g, id, shapeIds) ==
  [g EXCEPT !.visible[id] = IF shapeIds = UndefShapes THEN ShapeIds ELSE shapeIds]

\* The ancestors of an item in the combo tree, nearest first.
RECURSIVE Ancestors(_, _)
Ancestors(g, id) ==
  IF id \notin DOMAIN g.parent \/ g.parent[id] = NoId THEN <<>>
  ELSE <<g.parent[id]>> \o Ancestors(g, g.parent[id])

\* graph.drawTransient(type, id, {upsertAncestors}) for an item: a transient
\* copy of it (and of its ancestor combos) is drawn.
DrawTransient(g, id, upsertAncestors) ==
  [g EXCEPT !.transients =
     @ \cup {id} \cup (IF upsertAncestors THEN Range(Ancestors(g, id)) ELSE {})]

\* graph.drawTransient('node', id, {data: {x, y}, upsertAncestors}): the
\* transient copy of the node is drawn at (x, y).
DrawTransientAt(g, id, x, y, upsertAncestors) ==
  LET d == DrawTransient(g, id, upsertAncestors)
  IN IF id \in Nodes THEN [d EXCEPT !.tpos[id] = <<[x |-> x, y |-> y]>>] ELSE d

\* graph.drawTransient(type, id, {action: 'remove'}) for each id of a set.
RemoveTransients(g, ids) ==
  [g EXCEPT !.transients = @ \ ids,
            !.tpos = [n \in Nodes |-> IF n \in ids THEN <<>> ELSE @[n]]]

\* graph.getRenderBBox(id): the box of half-side NodeR around the node.
GetRenderBBox(g, id) ==
  [minX |-> g.pos[id].x - NodeR, minY |-> g.pos[id].y - NodeR,
   maxX |-> g.pos[id].x + NodeR, maxY |-> g.pos[id].y + NodeR]

\* graph.updateNodePosition(changes): the positions are written at once.
RECURSIVE UpdateNodePosition(_, _)
UpdateNodePosition(g, changes) ==
  IF changes = <<>> THEN g
  ELSE LET c == Head(changes)
       IN UpdateNodePosition([g EXCEPT !.pos[c.id] = [x |-> c.x, y |-> c.y]],
                             Tail(changes))

\* graphComboTreeDfs(graph, combos, fn): the ids of the combos and of all
\* their descendants.
ComboTreeIds(g, combos) ==
  LET roots == Range(combos)
      under(i) == \E k \in 1..Len(Ancestors(g, i)) : Ancestors(g, i)[k] \in roots
  IN SelectSeq(<<"c1">> \o NodeOrder, LAMBDA i : i \in roots \/ under(i))

\* --------------------------------------------------------------- state

VARIABLES
  passed,               \* the options passed to the constructor
  options,              \* this.options, as the constructor left them
  rendererType,         \* graph.rendererType
  graph,                \* the graph runtime
  hiddenEdges,          \* the fields of DragNode
  hiddenRelatedNodes,
  selectedNodeIds,
  hiddenNearEdges,
  hiddenComboTreeItems,
  originX,              \* <<>> until the first drag sets it, then <<x>>
  originY,
  originPositions,
  pointerDown,          \* <<>> for undefined, <<point>> otherwise
  dragging,
  hiddenNearEdgesCache,
  hiddenShapeCache,
  throttledMoveNodes,   \* [kind, open, pending]: the function stored in the field
  orphanMoves,          \* trailing calls pending in throttle closures of earlier drags
  settleQ,              \* debounced pointer-up callbacks waiting for their timer
  docListeners,         \* the once-listeners on document mouseup: their pointer-down events
  dropQ,                \* bag of the drop handlers waiting for elementsFromPoint: [kind, p]
  btn,                  \* the pointer button: "up" or "down"
  at,                   \* where the pointer is
  gestures,             \* pointer-downs so far
  moves,                \* pointermoves so far
  escapes,              \* Escape presses so far
  last,                 \* the handler that ran last
  threw,                \* whether that handler ended by throwing
  showLog,              \* the showItem calls it made, in order: [id, shapeIds, pass]
  emitted,              \* the completion events it emitted: their itemIds
  callLog,              \* the calls its drop handler made: "updateData", "onPointerUp"
  nearLog,              \* <<what its near-edge query returned>>, <<>> when it made none
  hit,                  \* <<the ids its hit-test resolved to>>, <<>> when it made none
  preVisible,           \* graph.visible and graph.pos as they were at the last pointer-down
  prePos,
  dragSnap,             \* <<the snapshot the drag of this gesture started with>>, <<>> before it
  cancelled,            \* Escape was pressed while this gesture was dragging
  dropped,              \* <<the target the drop of this gesture was delivered on>>
  began,                \* what shouldBegin returned for the last pointer-down
  settled,              \* the events each pointer-up callback emitted, since the last pointer-down
  releaseQ,             \* the events of the running release that are still to be delivered
  edge,                 \* the polyline edge being drawn: its model, style and the node map
  drawLog               \* <<the router and builder calls of its last drawKeyShape>>

progVars ==
  <<options, rendererType, graph, hiddenEdges, hiddenRelatedNodes,
    selectedNodeIds, hiddenNearEdges, hiddenComboTreeItems, originX, originY,
    originPositions, pointerDown, dragging, hiddenNearEdgesCache, hiddenShapeCache,
    throttledMoveNodes, orphanMoves, settleQ, docListeners, dropQ>>

envVars ==
  <<btn, at, gestures, moves, escapes, preVisible, prePos, dragSnap, cancelled, dropped,
    began, settled, releaseQ>>

edgeVars == <<edge, drawLog>>

vars == <<passed, progVars, envVars, last, threw, showLog, emitted, callLog, nearLog, hit, edgeVars>>

\* The program state as one record, so that a handler is a function of it.
\* passes counts the calls of restoreHiddenItems the handler has made.
Cur ==
  [ graph |-> graph, hiddenEdges |-> hiddenEdges,
    hiddenRelatedNodes |-> hiddenRelatedNodes, selectedNodeIds |-> selectedNodeIds,
    hiddenNearEdges |-> hiddenNearEdges, hiddenComboTreeItems |-> hiddenComboTreeItems,
    originX |-> originX, originY |-> originY, originPositions |-> originPositions,
    pointerDown |-> pointerDown, dragging |-> dragging,
    hiddenNearEdgesCache |-> hiddenNearEdgesCache, hiddenShapeCache |-> hiddenShapeCache,
    throttledMoveNodes |-> throttledMoveNodes, orphanMoves |-> orphanMoves,
    settleQ |-> settleQ, docListeners |-> docListeners, dropQ |-> dropQ,
    threw |-> FALSE, showLog |-> <<>>, emitted |-> <<>>, callLog |-> <<>>,
    nearLog |-> <<>>, hit |-> <<>>, passes |-> 0 ]

\* The step that runs handler `name` and leaves the program in m.
Ran(name, m) ==
  /\ graph' = m.graph
  /\ hiddenEdges' = m.hiddenEdges
  /\ hiddenRelatedNodes' = m.hiddenRelatedNodes
  /\ selectedNodeIds' = m.selectedNodeIds
  /\ hiddenNearEdges' = m.hiddenNearEdges
  /\ hiddenComboTreeItems' = m.hiddenComboTreeItems
  /\ originX' = m.originX
  /\ originY' = m.originY
  /\ originPositions' = m.originPositions
  /\ pointerDown' = m.pointerDown
  /\ dragging' = m.dragging
  /\ hiddenNearEdgesCache' = m.hiddenNearEdgesCache
  /\ hiddenShapeCache' = m.hiddenShapeCache
  /\ throttledMoveNodes' = m.throttledMoveNodes
  /\ orphanMoves' = m.orphanMoves
  /\ settleQ' = m.settleQ
  /\ docListeners' = m.docListeners
  /\ dropQ' = m.dropQ
  /\ threw' = m.threw
  /\ showLog' = m.showLog
  /\ emitted' = m.emitted
  /\ callLog' = m.callLog
  /\ nearLog' = m.nearLog
  /\ hit' = m.hit
  /\ last' = name
  /\ UNCHANGED <<passed, options, rendererType, edgeVars>>

NoPoint == [x |-> 0, y |-> 0]

\* --------------------------------------------------------- construction

\* A constructor that keeps the options it is given: no precedence.
ConstructorKeep(given) == given

\* DragNode's constructor: the defaults, the given options over them, and
\* the precedence of delegate over transient and of both over hideRelatedEdges.
Constructor(given) ==
  LET t == IF given.enableDelegate THEN FALSE ELSE given.enableTransient
      h == IF given.enableDelegate \/ t THEN FALSE ELSE given.hideRelatedEdges
  IN [given EXCEPT !.enableTransient = t, !.hideRelatedEdges = h]

GivenOptions ==
  [ enableTransient : BOOLEAN, enableDelegate : BOOLEAN, hideRelatedEdges : BOOLEAN,
    throttle : {0, DefaultThrottle}, eventName : {"dragend"},
    updateComboStructure : BOOLEAN ]

\* The option sets that name at most one mode: the constructor keeps them as
\* they are.
PlainOptions == {g \in GivenOptions : Constructor(g) = g}

\* options.enableTransient && graph.rendererType !== 'webgl-3d'
EnableTransient == options.enableTransient /\ rendererType # "webgl-3d"

\* The visible sub-shapes of the items before any drag: the label of node a
\* and the label of edge bc are hidden, every other sub-shape is visible.
InitVisible ==
  [i \in Items |-> IF i \in {"a", "bc"} THEN {"keyShape"} ELSE ShapeIds]

StubMove == [kind |-> "stub", open |-> FALSE, pending |-> <<>>]

\* The state new DragNode(given) leaves.
Constructed ==
  /\ options = Constructor(passed)
  /\ rendererType \in {"canvas"}
  /\ graph = [ pos |-> InitPos, visible |-> InitVisible, parent |-> InitParent,
               transients |-> {}, tpos |-> [n \in Nodes |-> <<>>],
               delegate |-> <<>> ]
  /\ hiddenEdges = <<>>
  /\ hiddenRelatedNodes = <<>>
  /\ selectedNodeIds = <<>>
  /\ hiddenNearEdges = <<>>
  /\ hiddenComboTreeItems = <<>>
  /\ originX = <<>>
  /\ originY = <<>>
  /\ originPositions = <<>>
  /\ pointerDown = <<>>
  /\ dragging = FALSE
  /\ hiddenNearEdgesCache = <<>>
  /\ hiddenShapeCache = EmptyCache
  /\ throttledMoveNodes = StubMove
  /\ orphanMoves = {}
  /\ settleQ = <<>>
  /\ docListeners = <<>>
  /\ dropQ = EmptyBag
  /\ btn = "up"
  /\ at = NoPoint
  /\ gestures = 0
  /\ moves = 0
  /\ escapes = 0
  /\ last = "constructor"
  /\ threw = FALSE
  /\ showLog = <<>>
  /\ emitted = <<>>
  /\ callLog = <<>>
  /\ nearLog = <<>>
  /\ hit = <<>>
  /\ preVisible = graph.visible
  /\ prePos = graph.pos
  /\ dragSnap = <<>>
  /\ cancelled = FALSE
  /\ dropped = <<>>
  /\ began = TRUE
  /\ settled = <<>>
  /\ releaseQ = <<>>

\* No polyline edge is drawn in the runs of the drag behavior.
NoEdgeDrawn == edge = <<>> /\ drawLog = <<>>

\* The behavior is built with updateComboStructure off: getEvents then
\* registers pointerup for onClick and no drop handler.
Init ==
  /\ passed \in {g \in PlainOptions : ~g.updateComboStructure}
  /\ Constructed
  /\ NoEdgeDrawn

\* ------------------------------------------------- DragNode: helpers

\* getRelatedEdges(selectedNodeIds, relatedCombo)
GetRelatedEdges(g, ids, relatedCombo) ==
  LET all == ids \o ComboTreeIds(g, relatedCombo)
  IN Uniq(Concat([i \in 1..Len(all) |-> RelatedEdgesData(all[i])]))

\* getRelatedNodes(selectedNodeIds): the neighbours of each selected node that
\* are not selected themselves, concatenated.
GetRelatedNodes(ids) ==
  Concat([i \in 1..Len(ids) |->
            SelectSeq(NeighborNodesData(ids[i]), LAMBDA n : n \notin Range(ids))])

\* getComboTreeItems reads nodeData.data of every selected id: it throws for
\* an id without node data, unless updateComboStructure returned first.
ComboTreeItemsThrows(ids) ==
  /\ ~options.updateComboStructure
  /\ \E i \in 1..Len(ids) : ~HasNodeData(ids[i])

\* getComboTreeItems(selectedNodeIds): the visible ancestor combos.
GetComboTreeItems(g, ids) ==
  IF options.updateComboStructure THEN <<>>
  ELSE SelectSeq(Uniq(Concat([i \in 1..Len(ids) |-> Ancestors(g, ids[i])])),
                 LAMBDA c : GetItemVisible(g, c))

\* ids.forEach((id) => hiddenShapeCache.set(id, graph.getItemVisibleShapeIds(id)))
RECURSIVE CacheVisible(_, _, _)
CacheVisible(cache, g, ids) ==
  IF ids = <<>> THEN cache
  ELSE CacheVisible(CacheSet(cache, Head(ids), GetItemVisibleShapeIds(g, Head(ids))),
                    g, Tail(ids))

\* The cache of the visible shapes of ids, then graph.hideItem(ids).
CacheAndHide(m, ids, keepRelated) ==
  [m EXCEPT !.hiddenShapeCache = CacheVisible(@, m.graph, ids),
            !.graph = HideItem(@, ids, keepRelated)]

RECURSIVE DrawTransients(_, _, _)
DrawTransients(g, ids, upsertAncestors) ==
  IF ids = <<>> THEN g
  ELSE DrawTransients(DrawTransient(g, Head(ids), upsertAncestors), Tail(ids),
                      upsertAncestors)

\* The position snapshot taken when a drag starts: one entry per selected id
\* that has node data, with its bounding box when delegate is enabled.
Snapshot(g, ids) ==
  LET have == SelectSeq(ids, HasNodeData)
  IN [i \in 1..Len(have) |->
        IF options.enableDelegate
        THEN [id |-> have[i], x |-> g.pos[have[i]].x, y |-> g.pos[have[i]].y,
              minX |-> GetRenderBBox(g, have[i]).minX,
              minY |-> GetRenderBBox(g, have[i]).minY,
              maxX |-> GetRenderBBox(g, have[i]).maxX,
              maxY |-> GetRenderBBox(g, have[i]).maxY]
        ELSE [id |-> have[i], x |-> g.pos[have[i]].x, y |-> g.pos[have[i]].y]]

\* ------------------------------------------------- DragNode: moveNodes

RECURSIVE MoveTransientNodes(_, _, _, _, _)
MoveTransientNodes(g, positions, deltaX, deltaY, upsertAncestors) ==
  IF positions = <<>> THEN g
  ELSE LET q == Head(positions)
       IN MoveTransientNodes(
            DrawTransientAt(g, q.id, q.x + deltaX, q.y + deltaY, upsertAncestors),
            Tail(positions), deltaX, deltaY, upsertAncestors)

PositionChanges(positions, deltaX, deltaY) ==
  [i \in 1..Len(positions) |->
     [id |-> positions[i].id, x |-> positions[i].x + deltaX,
      y |-> positions[i].y + deltaY]]

\* moveNodes without its `if (transient)`: the real positions are written
\* whatever the flag says. C9 does not hold of it.
MoveNodesReal(m, deltaX, deltaY, transient, upsertAncestors, withCallback) ==
  [m EXCEPT
     !.graph = UpdateNodePosition(@, PositionChanges(m.originPositions, deltaX, deltaY)),
     !.settleQ = IF withCallback /\ m.originPositions # <<>>
                 THEN Append(@, [positions |-> m.originPositions])
                 ELSE @]

\* moveNodes(deltaX, deltaY, transient, upsertAncestors, callback): with
\* transient the transient copies are redrawn; without, the real positions are
\* written and, when a callback is given and the batch is not empty, the
\* callback is queued with the copy of the snapshot.
MoveNodes(m, deltaX, deltaY, transient, upsertAncestors, withCallback) ==
  IF transient
  THEN [m EXCEPT !.graph =
          DrawTransients(
            MoveTransientNodes(@, m.originPositions, deltaX, deltaY, upsertAncestors),
            m.hiddenEdges, FALSE)]
  ELSE [m EXCEPT
          !.graph = UpdateNodePosition(@, PositionChanges(m.originPositions, deltaX, deltaY)),
          !.settleQ = IF withCallback /\ m.originPositions # <<>>
                      THEN Append(@, [positions |-> m.originPositions])
                      ELSE @]

\* A call of this.throttledMoveNodes: the stub does nothing, moveNodes itself
\* runs at once, and throttle(moveNodes, wait, {leading, trailing}) runs at once
\* when its window is closed and keeps the arguments for its timer otherwise.
\* The window is closed before the first call and when the wait has passed
\* since the last run (late); a call that finds it closed clears the timer of
\* a call that is still waiting.
CallThrottled(m, deltaX, deltaY, transient, upsertAncestors, late) ==
  LET f == m.throttledMoveNodes
  IN CASE f.kind = "stub" -> m
       [] f.kind = "direct" -> MoveNodes(m, deltaX, deltaY, transient, upsertAncestors, FALSE)
       [] OTHER ->
            IF ~f.open \/ late
            THEN [MoveNodes(m, deltaX, deltaY, transient, upsertAncestors, FALSE)
                    EXCEPT !.throttledMoveNodes = [f EXCEPT !.open = TRUE, !.pending = <<>>]]
            ELSE [m EXCEPT !.throttledMoveNodes =
                    [f EXCEPT !.pending = <<[deltaX |-> deltaX, deltaY |-> deltaY]>>]]

\* moveDelegate(deltaX, deltaY): the rectangle around the snapshot's boxes, moved.
MinOf(S) == CHOOSE v \in S : \A w \in S : v <= w

MaxOf(S) == CHOOSE v \in S : \A w \in S : v >= w

MoveDelegate(m, deltaX, deltaY) ==
  LET ps == m.originPositions
      x1 == MinOf({ps[i].minX : i \in 1..Len(ps)})
      y1 == MinOf({ps[i].minY : i \in 1..Len(ps)})
      x2 == MaxOf({ps[i].maxX : i \in 1..Len(ps)})
      y2 == MaxOf({ps[i].maxY : i \in 1..Len(ps)})
  IN [m EXCEPT !.graph.delegate =
        <<[x |-> x1 + deltaX, y |-> y1 + deltaY, width |-> x2 - x1, height |-> y2 - y1]>>]

\* clearDelegate()
ClearDelegate(m) == [m EXCEPT !.graph.delegate = <<>>]

\* clearTransientItems(positions)
ClearTransientItems(m, positions) ==
  LET he == m.hiddenEdges
      ids == {EdgeSource[he[i]] : i \in 1..Len(he)}
               \cup {EdgeTarget[he[i]] : i \in 1..Len(he)}
               \cup Range(he) \cup Range(m.hiddenNearEdges)
               \cup Range(m.hiddenComboTreeItems) \cup Range(Ids(positions))
  IN [m EXCEPT !.graph = RemoveTransients(@, ids)]

\* ------------------------------------------ DragNode: restoreHiddenItems

\* ids.forEach: graph.showItem(id, {shapeIds: hiddenShapeCache.get(id)}) when
\* fromCache, graph.showItem(id, {}) otherwise; then hiddenShapeCache.delete(id).
RECURSIVE ShowEach(_, _, _)
ShowEach(m, ids, fromCache) ==
  IF ids = <<>> THEN m
  ELSE LET id == Head(ids)
           shapeIds == IF fromCache THEN CacheGet(m.hiddenShapeCache, id) ELSE UndefShapes
       IN ShowEach([m EXCEPT !.graph = ShowItem(@, id, shapeIds),
                             !.hiddenShapeCache = CacheDelete(@, id),
                             !.showLog = Append(@, [id |-> id, shapeIds |-> shapeIds,
                                                    pass |-> m.passes])],
                   Tail(ids), fromCache)

\* restoreHiddenItems(positions?); arg is <<>> when the argument is left out
\* and <<positions>> otherwise. originPositions.concat(undefined) ends with an
\* undefined element, whose .id throws once the elements before it are shown.
RestoreHiddenItems(m, arg) ==
  LET m0 == [m EXCEPT !.passes = @ + 1]
      m1 == [ShowEach(m0, m0.hiddenEdges, TRUE) EXCEPT !.hiddenEdges = <<>>]
      m2 == [ShowEach(m1, m1.hiddenRelatedNodes, TRUE) EXCEPT !.hiddenRelatedNodes = <<>>]
      m3 == [ShowEach(m2, m2.hiddenNearEdges, FALSE) EXCEPT !.hiddenNearEdges = <<>>]
      m4 == [ShowEach(m3, m3.hiddenComboTreeItems, TRUE) EXCEPT !.hiddenComboTreeItems = <<>>]
  IN IF ~EnableTransient THEN m4
     ELSE IF arg = <<>>
          THEN [ShowEach(m4, Ids(m4.originPositions), TRUE) EXCEPT !.threw = TRUE]
          ELSE ShowEach(m4, Ids(m4.originPositions \o arg[1]), TRUE)

\* clearState()
ClearState(m) == [m EXCEPT !.originPositions = <<>>]

\* ------------------------------------------------ DragNode: handlers

\* A pointer-down that arms whatever shouldBegin returns. C24 does not hold
\* of it.
OnPointerDownAlways(m, p, begin) ==
  [m EXCEPT !.pointerDown = <<p>>,
            !.dragging = FALSE,
            !.docListeners = Append(@, p)]

\* onPointerDown(event); begin is what options.shouldBegin(event) returns.
OnPointerDown(m, p, begin) ==
  IF ~begin THEN m
  ELSE [m EXCEPT !.pointerDown = <<p>>,
                 !.dragging = FALSE,
                 !.docListeners = Append(@, p)]

\* The final delta of onPointerUp on one axis: event.canvas - origin + 0.01.
\* Before the first drag the origin is undefined and the delta is NaN; the
\* snapshot is empty then and no position is computed from it, so 0 stands for it.
UpDelta(c, origin) == IF origin = <<>> THEN 0 ELSE c - origin[1] + UpOffset

\* onPointerUp(event)
OnPointerUp(m, p) ==
  MoveNodes([m EXCEPT !.pointerDown = <<>>, !.dragging = FALSE, !.selectedNodeIds = <<>>],
            UpDelta(p.x, m.originX), UpDelta(p.y, m.originY), FALSE, TRUE, TRUE)

\* The callback onPointerUp hands to moveNodes, run by its debounce timer.
SettleCallback(m, positions) ==
  LET m1 == IF EnableTransient THEN ClearTransientItems(m, positions) ELSE m
      m2 == IF options.enableDelegate THEN ClearDelegate(m1) ELSE m1
      m3 == RestoreHiddenItems(m2, <<positions>>)
      m4 == IF options.eventName # ""
            THEN [m3 EXCEPT !.emitted = Append(@, Ids(positions))]
            ELSE m3
  IN ClearState(m4)

\* onClick(event)
OnClick(m, p) == ClearState(OnPointerUp(m, p))

\* The positions onKeydown writes back.
OriginChanges(positions) ==
  [i \in 1..Len(positions) |->
     [id |-> positions[i].id, x |-> positions[i].x, y |-> positions[i].y]]

\* onKeydown(event) for the Escape key.
OnKeydown(m) ==
  LET m1 == ClearTransientItems(ClearDelegate(m), m.originPositions)
      m2 == RestoreHiddenItems(m1, <<>>)
      m3 == IF ~EnableTransient /\ ~options.enableDelegate
            THEN [m2 EXCEPT !.graph = UpdateNodePosition(@, OriginChanges(m2.originPositions))]
            ELSE m2
  IN IF m2.threw THEN m2 ELSE ClearState(m3)

\* ---------------------------------------------- DragNode: onPointerMove

\* The threshold test with `||` for `&&`: under 1 pixel in either axis. C6
\* does not hold of it.
BelowThresholdEither(down, p) ==
  Abs(down.x - p.x) < Scale \/ Abs(down.y - p.y) < Scale

\* The move is under 1 pixel from the pointer-down position in both axes.
BelowThreshold(down, p) ==
  Abs(down.x - p.x) < Scale /\ Abs(down.y - p.y) < Scale

\* The drag set: the selected nodes, or the node under the pointer when it
\* is not one of them.
ResolveSelection(item) ==
  IF item # NoId /\ item \notin Range(SelectedState) THEN <<item>> ELSE SelectedState

\* The branch `hideRelatedEdges && !enableTransient` of the first move.
HideRelated(m) ==
  LET combo == GetComboTreeItems(m.graph, m.selectedNodeIds)
      edges == GetRelatedEdges(m.graph, m.selectedNodeIds, combo)
      m1 == [m EXCEPT !.hiddenComboTreeItems = combo,
                      !.hiddenEdges = edges,
                      !.hiddenRelatedNodes = GetRelatedNodes(m.selectedNodeIds)]
      m2 == CacheAndHide(m1, m1.hiddenEdges, FALSE)
      m3 == CacheAndHide(m2, m2.hiddenRelatedNodes, TRUE)
  IN CacheAndHide(m3, m3.hiddenComboTreeItems, FALSE)

\* The branch `enableTransient` of the first move.
DrawAndHide(m) ==
  LET combo == GetComboTreeItems(m.graph, m.selectedNodeIds)
      edges == GetRelatedEdges(m.graph, m.selectedNodeIds, combo)
      m1 == [m EXCEPT !.hiddenComboTreeItems = combo,
                      !.hiddenEdges = edges,
                      !.hiddenRelatedNodes = GetRelatedNodes(m.selectedNodeIds)]
      m2 == [m1 EXCEPT !.graph =
               DrawTransients(
                 DrawTransients(@, m1.selectedNodeIds, ~options.updateComboStructure),
                 m1.hiddenEdges, FALSE)]
      m3 == CacheAndHide(m2, m2.selectedNodeIds, FALSE)
      m4 == CacheAndHide(m3, m3.hiddenEdges, FALSE)
      m5 == CacheAndHide(m4, m4.hiddenRelatedNodes, TRUE)
  IN CacheAndHide(m5, m5.hiddenComboTreeItems, FALSE)

\* The function the first move stores in throttledMoveNodes. The timer of the
\* function it replaces stays armed.
NewThrottled(m) ==
  LET old == m.throttledMoveNodes
  IN IF options.throttle > 0
     THEN [m EXCEPT !.throttledMoveNodes =
                      [kind |-> "throttled", open |-> FALSE, pending |-> <<>>],
                    !.orphanMoves = @ \cup Range(old.pending)]
     ELSE [m EXCEPT !.throttledMoveNodes =
                      [kind |-> "direct", open |-> FALSE, pending |-> <<>>],
                    !.orphanMoves = @ \cup Range(old.pending)]

\* A drag start that takes the pointer-down position as the reference point.
\* C32 does not hold of it.
DragStartFromDown(m, p, item) ==
  LET sel == ResolveSelection(item)
      m1 == [m EXCEPT !.dragging = TRUE,
                      !.selectedNodeIds = sel,
                      !.originPositions = Snapshot(m.graph, sel)]
      needsCombo == (options.hideRelatedEdges /\ ~EnableTransient) \/ EnableTransient
      m2 == IF EnableTransient THEN DrawAndHide(m1)
            ELSE IF options.hideRelatedEdges THEN HideRelated(m1)
            ELSE m1
  IN IF needsCombo /\ ComboTreeItemsThrows(sel)
     THEN [m1 EXCEPT !.threw = TRUE]
     ELSE [NewThrottled(m2) EXCEPT !.originX = <<m.pointerDown[1].x>>,
                                   !.originY = <<m.pointerDown[1].y>>]

\* `if (!this.dragging) { ... }`: the first qualifying move of a gesture.
DragStart(m, p, item) ==
  LET sel == ResolveSelection(item)
      m1 == [m EXCEPT !.dragging = TRUE,
                      !.selectedNodeIds = sel,
                      !.originPositions = Snapshot(m.graph, sel)]
      needsCombo == (options.hideRelatedEdges /\ ~EnableTransient) \/ EnableTransient
      m2 == IF EnableTransient THEN DrawAndHide(m1)
            ELSE IF options.hideRelatedEdges THEN HideRelated(m1)
            ELSE m1
  IN IF needsCombo /\ ComboTreeItemsThrows(sel)
     THEN [m1 EXCEPT !.threw = TRUE]
     ELSE [NewThrottled(m2) EXCEPT !.originX = <<p.x>>, !.originY = <<p.y>>]

\* ids.forEach: drawTransient('edge', id, {action: 'remove'}); showItem(id).
RECURSIVE ShowLeftNear(_, _)
ShowLeftNear(m, ids) ==
  IF ids = <<>> THEN m
  ELSE ShowLeftNear(
         [m EXCEPT !.graph = ShowItem(RemoveTransients(@, {Head(ids)}), Head(ids), UndefShapes),
                   !.showLog = Append(@, [id |-> Head(ids), shapeIds |-> UndefShapes,
                                          pass |-> 0])],
         Tail(ids))

\* getNearEdgesForNodes(nodeIds, shouldBegin): near is what the quad tree
\* finds around the nodes, shouldBegin keeps the polylines that avoid obstacles.
GetNearEdgesForNodes(near) == Uniq(SelectSeq(near, LAMBDA e : e \in AvoidEdges))

\* The near-edge block of onPointerMove; near is what the quad tree finds
\* around the dragged nodes that prevent polyline overlap.
NearEdges(m, near) ==
  LET prevent == SelectSeq(m.selectedNodeIds, LAMBDA n : n \in PreventOverlapNodes)
      now == SelectSeq(GetNearEdgesForNodes(near),
                       LAMBDA e : e \notin Range(m.hiddenEdges))
      m1 == [m EXCEPT !.hiddenNearEdgesCache = m.hiddenNearEdges,
                      !.hiddenNearEdges = now,
                      !.nearLog = <<near>>]
      m2 == ShowLeftNear(m1, SelectSeq(m1.hiddenNearEdgesCache,
                                       LAMBDA e : e \notin Range(now)))
      m3 == IF now = <<>> THEN m2
            ELSE CacheAndHide([m2 EXCEPT !.graph = DrawTransients(@, now, FALSE)],
                              now, FALSE)
  IN IF m.dragging /\ EnableTransient /\ prevent # <<>> THEN m3 ELSE m

\* The end of onPointerMove: the delta from the reference point is applied.
ApplyMove(m, p, late) ==
  IF m.originPositions = <<>> \/ ~m.dragging THEN m
  ELSE LET deltaX == p.x - m.originX[1]
           deltaY == p.y - m.originY[1]
       IN IF options.enableDelegate
          THEN MoveDelegate(m, deltaX, deltaY)
          ELSE CallThrottled(m, deltaX, deltaY, EnableTransient,
                             ~options.updateComboStructure, late)

\* onPointerMove(event): p is event.canvas, item is event.itemId, near is what
\* the near-edge query finds, late tells whether the throttle wait has
\* passed since throttledMoveNodes last ran moveNodes.
OnPointerMove(m, p, item, near, late) ==
  IF m.pointerDown = <<>> THEN m
  ELSE IF BelowThreshold(m.pointerDown[1], p) THEN m
  ELSE LET m1 == IF m.dragging THEN m ELSE DragStart(m, p, item)
       IN IF m1.threw THEN m1 ELSE ApplyMove(NearEdges(m1, near), p, late)

\* ---------------------------------------------------------- the actions

\* Where the pointer goes down.
DownPoints == {[x |-> 0, y |-> 0]}

\* What the near-edge query may return.
NearResults == {<<>>, <<"ab", "bc">>}

\* node:pointerdown. The button goes down once per gesture; shouldBegin may
\* return either value.
PointerDown(p, begin) ==
  /\ btn = "up"
  /\ gestures < MaxGestures
  /\ Ran("onPointerDown", OnPointerDown(Cur, p, begin))
  /\ btn' = "down"
  /\ at' = p
  /\ gestures' = gestures + 1
  /\ preVisible' = graph.visible
  /\ prePos' = graph.pos
  /\ dragSnap' = <<>>
  /\ cancelled' = FALSE
  /\ dropped' = <<>>
  /\ began' = begin
  /\ settled' = <<>>
  /\ UNCHANGED releaseQ
  /\ UNCHANGED <<moves, escapes>>

\* pointermove while the button is down (after a release every move returns
\* at the first line of the handler until the next pointer-down).
PointerMove(p, item, near, late) ==
  /\ btn = "down"
  /\ moves < MaxMoves
  /\ Ran("onPointerMove", OnPointerMove(Cur, p, item, near, late))
  /\ at' = p
  /\ moves' = moves + 1
  /\ dragSnap' = IF ~dragging /\ dragging' THEN <<originPositions'>> ELSE dragSnap
  /\ UNCHANGED <<btn, gestures, escapes, preVisible, prePos, cancelled, dropped, began, settled, releaseQ>>

\* The once-listeners of document mouseup: each calls onPointerUp with the
\* pointer-down event it closed over.
RECURSIVE RunListeners(_, _)
RunListeners(m, events) ==
  IF events = <<>> THEN m
  ELSE RunListeners(OnPointerUp(m, Head(events)), Tail(events))

\* The handlers one release of the button runs, in the order of their events:
\* node:pointerup when it is released over a node, pointerup (mapped to
\* onClick when updateComboStructure is off) when it is released over the
\* canvas, click when the release counts as a click, and then the document's
\* mouseup listeners.
ReleaseHandlers(m, where, click) ==
  LET m1 == IF where = "node" THEN OnPointerUp(m, at) ELSE m
      m2 == IF where # "outside" /\ ~options.updateComboStructure
            THEN OnClick(m1, at) ELSE m1
      m3 == IF where # "outside" /\ click THEN OnClick(m2, at) ELSE m2
  IN [RunListeners(m3, m3.docListeners) EXCEPT !.docListeners = <<>>]

\* The button is released where the pointer is. No timer runs between the
\* events of one release.
Release(where, click) ==
  /\ btn = "down"
  /\ btn' = "up"
  /\ Ran("release", ReleaseHandlers(Cur, where, click))
  /\ UNCHANGED <<at, gestures, moves, escapes, preVisible, prePos, dragSnap, cancelled, dropped, began, settled, releaseQ>>

\* keydown
Keydown(key) ==
  /\ escapes < MaxEscapes
  /\ Ran("onKeydown", IF key \in {"Escape", "Esc"} THEN OnKeydown(Cur) ELSE Cur)
  /\ escapes' = escapes + 1
  /\ cancelled' = (cancelled \/ (key \in {"Escape", "Esc"} /\ btn = "down" /\ dragging))
  /\ UNCHANGED <<btn, at, gestures, moves, preVisible, prePos, dragSnap, dropped, began, settled,
                 releaseQ>>

\* The timer of the current throttled function fires: the trailing call.
ThrottleTimer ==
  /\ throttledMoveNodes.pending # <<>>
  /\ LET a == throttledMoveNodes.pending[1]
         m == [Cur EXCEPT !.throttledMoveNodes.pending = <<>>]
     IN Ran("throttle", MoveNodes(m, a.deltaX, a.deltaY, EnableTransient,
                      ~options.updateComboStructure, FALSE))
  /\ UNCHANGED envVars

\* The timer of a throttled function of an earlier drag fires.
OrphanTimer(a) ==
  /\ a \in orphanMoves
  /\ Ran("throttle", MoveNodes([Cur EXCEPT !.orphanMoves = @ \ {a}], a.deltaX, a.deltaY,
                   EnableTransient, ~options.updateComboStructure, FALSE))
  /\ UNCHANGED envVars

\* The debounce timer of the oldest pending pointer-up callback fires: every
\* pointer-up wraps its callback in a debounce of its own, each timer is a
\* task of its own, and the timers fire in the order they were set.
SettleTimer ==
  /\ settleQ # <<>>
  /\ Ran("settle", SettleCallback([Cur EXCEPT !.settleQ = Tail(@)],
                                  settleQ[1].positions))
  /\ settled' = Append(settled, emitted')
  /\ UNCHANGED <<btn, at, gestures, moves, escapes, preVisible, prePos, dragSnap, cancelled,
                 dropped, began, releaseQ>>

\* The events of a behavior built with updateComboStructure off, and its timers.
Next ==
  \/ \E p \in DownPoints, begin \in BOOLEAN : PointerDown(p, begin)
  \/ \E p \in Points, item \in MoveItemIds, near \in NearResults, late \in BOOLEAN :
       PointerMove(p, item, near, late)
  \/ \E where \in {"node", "canvas", "outside"}, click \in BOOLEAN : Release(where, click)
  \/ \E key \in {"Escape"} : Keydown(key)
  \/ ThrottleTimer
  \/ \E a \in orphanMoves : OrphanTimer(a)
  \/ SettleTimer

Spec == Init /\ [][Next]_vars

\* ------------------------------------------------- the drop handlers

\* graph.updateData('node', {id, data: {parentId}}): the node is moved under
\* another parent; NoId makes it a child of the canvas.
UpdateParent(g, id, parentId) == [g EXCEPT !.parent[id] = parentId]

\* What elementsFromPoint can resolve to: the ids of the items under the
\* pointer, topmost first.
HitResults == {<<>>, <<"c1">>, <<"b">>, <<"c", "c1">>}

\* The new parent onDropNode and onDropCanvas derive from the hit-test: the
\* topmost item that is not dragged and is a combo or a node; its parent when
\* it is a node, itself when it is a combo, undefined when there is none.
DropParent(m, under) ==
  LET draggingIds == Ids(m.originPositions)
      currentIds == SelectSeq(under, LAMBDA id : id \notin Range(draggingIds))
      found == SelectSeq(currentIds, LAMBDA id : id \in Combos \/ HasNodeData(id))
  IN IF found = <<>> THEN NoId
     ELSE IF HasNodeData(found[1]) THEN m.graph.parent[found[1]] ELSE found[1]

\* originPositions.forEach of onDropNode and onDropCombo: every node of the
\* snapshot that exists and has another parent is given newParentId.
RECURSIVE Reparent(_, _, _)
Reparent(g, positions, newParentId) ==
  IF positions = <<>> THEN g
  ELSE LET id == Head(positions).id
           g1 == IF HasNodeData(id) /\ g.parent[id] # newParentId
                 THEN UpdateParent(g, id, newParentId) ELSE g
       IN Reparent(g1, Tail(positions), newParentId)

\* The entries the forEach of onDropNode and onDropCombo leaves in the call
\* log: one graph.updateData call for every node it gives another parent.
RECURSIVE UpdateDataCalls(_, _, _)
UpdateDataCalls(g, positions, newParentId) ==
  IF positions = <<>> THEN <<>>
  ELSE LET id == Head(positions).id
           changes == HasNodeData(id) /\ g.parent[id] # newParentId
           g1 == IF changes THEN UpdateParent(g, id, newParentId) ELSE g
       IN (IF changes THEN <<"updateData">> ELSE <<>>)
            \o UpdateDataCalls(g1, Tail(positions), newParentId)

\* The entry onDropCanvas leaves in the call log: one graph.updateData call
\* for the whole of nodeToUpdate, made when it is not empty.
NodeToUpdateCall(g, g1) == IF g1.parent # g.parent THEN <<"updateData">> ELSE <<>>

\* this.onPointerUp(event) called by a drop handler.
DropPointerUp(m, p) == [OnPointerUp(m, p) EXCEPT !.callLog = Append(@, "onPointerUp")]

\* onDropNode(event) after its await.
OnDropNode(m, p, under) ==
  LET newParentId == DropParent(m, under)
      g1 == Reparent(m.graph, m.originPositions, newParentId)
  IN DropPointerUp([m EXCEPT !.graph = g1,
                             !.callLog = @ \o UpdateDataCalls(m.graph, m.originPositions,
                                                              newParentId)], p)

\* onDropCombo(event): event.itemId is the combo.
OnDropCombo(m, p, combo) ==
  LET m1 == DropPointerUp(m, p)
      g1 == Reparent(m1.graph, m1.originPositions, combo)
  IN ClearState([m1 EXCEPT !.graph = g1,
                           !.callLog = @ \o UpdateDataCalls(m1.graph, m1.originPositions,
                                                            combo)])

\* nodeToUpdate of onDropCanvas, applied by graph.updateData: a node with
\* another parent than a defined parentId gets it; otherwise a node that has a
\* parent loses it and a node without parent is left alone.
RECURSIVE CanvasReparent(_, _, _)
CanvasReparent(g, positions, parentId) ==
  IF positions = <<>> THEN g
  ELSE LET id == Head(positions).id
           originParentId == g.parent[id]
           g1 == IF parentId # NoId /\ originParentId # parentId
                 THEN UpdateParent(g, id, parentId)
                 ELSE IF originParentId = NoId THEN g
                 ELSE UpdateParent(g, id, NoId)
       IN CanvasReparent(g1, Tail(positions), parentId)

\* onDropCanvas(event) after its await.
OnDropCanvas(m, p, under) ==
  LET parentId == DropParent(m, under)
      m1 == DropPointerUp(m, p)
      g1 == CanvasReparent(m1.graph, m1.originPositions, parentId)
  IN ClearState([m1 EXCEPT !.graph = g1,
                           !.callLog = @ \o NodeToUpdateCall(m1.graph, g1)])

\* The events a release inside the canvas delivers after the drop event of its
\* target: node:pointerup over a node, click when the release counts as a
\* click, and mouseup for every listener the document holds.
ReleaseEvents(m, where, click) ==
  (IF where = "node" THEN <<"node:pointerup">> ELSE <<>>)
    \o (IF click THEN <<"click">> ELSE <<>>)
    \o [i \in 1..Len(m.docListeners) |-> "mouseup"]

\* The button is released over a node, a combo or the canvas and the drop
\* event of that target is delivered: onDropCombo runs through, onDropNode
\* and onDropCanvas run up to their await. The other events of the release
\* are delivered after it, each to its own callback.
Drop(where, click) ==
  /\ options.updateComboStructure
  /\ btn = "down"
  /\ releaseQ = <<>>
  /\ btn' = "up"
  /\ Ran("drop", IF where = "combo" THEN OnDropCombo(Cur, at, "c1")
                 ELSE [Cur EXCEPT !.dropQ = @ (+) SetToBag({[kind |-> where, p |-> at]})])
  /\ dropped' = <<where>>
  /\ releaseQ' = ReleaseEvents(Cur, where, click)
  /\ UNCHANGED <<at, gestures, moves, escapes, preVisible, prePos, dragSnap, cancelled, began, settled>>

\* The next event of the running release is delivered: node:pointerup to
\* onPointerUp, click to onClick, mouseup to the once-listener of the document.
Deliver ==
  /\ releaseQ # <<>>
  /\ Ran("deliver",
         CASE Head(releaseQ) = "node:pointerup" -> OnPointerUp(Cur, at)
           [] Head(releaseQ) = "click" -> OnClick(Cur, at)
           [] OTHER -> [RunListeners(Cur, <<Head(docListeners)>>)
                          EXCEPT !.docListeners = Tail(@)])
  /\ releaseQ' = Tail(releaseQ)
  /\ UNCHANGED <<btn, at, gestures, moves, escapes, preVisible, prePos, dragSnap, cancelled,
                 dropped, began, settled>>

\* elementsFromPoint of one waiting drop handler resolves and that handler
\* goes on; the others, also those of the same kind at the same point, wait.
\* The handler goes on at any time after its await, also between two events
\* of the release that started it.
HitTest(d, under) ==
  /\ BagIn(d, dropQ)
  /\ LET m == [Cur EXCEPT !.dropQ = @ (-) SetToBag({d}), !.hit = <<under>>]
     IN Ran("hitTest", IF d.kind = "node" THEN OnDropNode(m, d.p, under)
                       ELSE OnDropCanvas(m, d.p, under))
  /\ UNCHANGED envVars

\* The events of a behavior built with updateComboStructure on: a release
\* inside the canvas delivers the drop event of its target and then its other
\* events, and a release outside of it delivers only the document's mouseup.
\* No event of the pointer or the keyboard and no timer comes between the
\* events of one release.
NextDrop ==
  \/ /\ releaseQ = <<>>
     /\ \E p \in DownPoints, begin \in BOOLEAN : PointerDown(p, begin)
  \/ /\ moves < MaxDropMoves
     /\ \E p \in Points, item \in MoveItemIds, near \in NearResults :
          PointerMove(p, item, near, FALSE)
  \/ Release("outside", FALSE)
  \/ /\ releaseQ = <<>>
     /\ \E key \in {"Escape"} : Keydown(key)
  \/ \E where \in {"node", "combo", "canvas"}, click \in BOOLEAN : Drop(where, click)
  \/ Deliver
  \/ \E d \in BagToSet(dropQ), under \in HitResults : HitTest(d, under)
  \/ /\ releaseQ = <<>>
     /\ SettleTimer

\* The behaviour with hierarchy restructuring on, moveNodes not throttled and
\* no mode: the real nodes are moved.
InitDrop ==
  /\ passed \in {g \in PlainOptions : /\ g.updateComboStructure /\ g.throttle = 0
                                       /\ ~g.enableTransient /\ ~g.enableDelegate
                                       /\ ~g.hideRelatedEdges}
  /\ Constructed
  /\ NoEdgeDrawn

SpecDrop == InitDrop /\ [][NextDrop]_vars

\* ------------------------------------------------- the polyline edge

\* The lengths of this section are whole pixels.

\* What pathFinder may return. The router is no part of these sources: its
\* result is taken to be any of the points as given, the two end points
\* alone, or the end points with one corner between them.
RouterChoices == {"given", "direct", "corner"}

\* pathFinder(points, sourceNodeId, targetNodeId, nodeMap, routeCfg); choice
\* is the result the router comes to.
PathFinder(points, sourceNodeId, targetNodeId, nodeMap, routeCfg, choice) ==
  LET source == points[1]
      target == points[Len(points)]
  IN CASE choice = "given" -> points
       [] choice = "direct" -> <<source, target>>
       [] OTHER -> <<source, [x |-> target.x, y |-> source.y], target>>

\* isEmpty(controlPoints): undefined and the empty list are empty.
IsEmpty(controlPoints) == controlPoints = <<>> \/ controlPoints[1] = <<>>

\* mix({}, {offset: keyShapeStyle.offset, name: 'orth'}, keyShapeStyle.routeCfg):
\* the fields routeCfg defines go over the two defaults.
MixRouteCfg(keyShapeStyle) ==
  LET given == keyShapeStyle.routeCfg
  IN [ offset |-> keyShapeStyle.offset,
       name |-> IF given # <<>> /\ given[1].name # <<>> THEN given[1].name[1] ELSE "orth",
       enableObstacleAvoidance |-> given # <<>> /\ given[1].enableObstacleAvoidance ]

\* getPath that reads the router's rule the other way round: the control
\* points are used as they are whenever there are some, or whenever the
\* strategy is not 'er'. C25 does not hold of it.
GetPathEither(this, model, points, radius, routeCfg, auto, choice) ==
  IF ~auto \/ routeCfg.name # "er"
  THEN [ router |-> <<>>,
         builder |-> [edgeId |-> model.id, points |-> points, radius |-> radius] ]
  ELSE LET polylinePoints == PathFinder(points, model.source, model.target,
                                        this.nodeMap, routeCfg, choice)
       IN [ router |-> <<[ points |-> points, sourceNodeId |-> model.source,
                           targetNodeId |-> model.target, nodeMap |-> this.nodeMap,
                           routeCfg |-> routeCfg, returned |-> polylinePoints ]>>,
            builder |-> [edgeId |-> model.id, points |-> polylinePoints, radius |-> radius] ]

\* getPath(model, points, radius, routeCfg, auto): the calls it makes, the
\* router's if any, with what it returned, and the builder's.
GetPath(this, model, points, radius, routeCfg, auto, choice) ==
  IF ~auto /\ routeCfg.name # "er"
  THEN [ router |-> <<>>,
         builder |-> [edgeId |-> model.id, points |-> points, radius |-> radius] ]
  ELSE LET polylinePoints == PathFinder(points, model.source, model.target,
                                        this.nodeMap, routeCfg, choice)
       IN [ router |-> <<[ points |-> points, sourceNodeId |-> model.source,
                           targetNodeId |-> model.target, nodeMap |-> this.nodeMap,
                           routeCfg |-> routeCfg, returned |-> polylinePoints ]>>,
            builder |-> [edgeId |-> model.id, points |-> polylinePoints, radius |-> radius] ]

\* drawKeyShape(model, sourcePoint, targetPoint, ...): the path of the key
\* shape.
DrawKeyShape(this, model, sourcePoint, targetPoint, choice) ==
  LET keyShapeStyle == this.keyShapeStyle
      controlPoints == keyShapeStyle.controlPoints
      points == IF controlPoints # <<>>
                THEN <<sourcePoint>> \o controlPoints[1] \o <<targetPoint>>
                ELSE <<sourcePoint, targetPoint>>
      routeCfg == MixRouteCfg(keyShapeStyle)
  IN GetPath(this, model, points, keyShapeStyle.radius, routeCfg, IsEmpty(controlPoints),
             choice)

Box(x1, y1, x2, y2) == [minX |-> x1, minY |-> y1, maxX |-> x2, maxY |-> y2]

\* The edge ab from node a to node b; node c is in between or out of the way.
EdgeModel == [id |-> "ab", source |-> "a", target |-> "b"]

\* Where node c may be: on the straight way, across the whole way, around
\* the target, off the way, over the source's corner.
ObstacleBoxes ==
  { Box(40, 40, 60, 60), Box(0, 40, 100, 60), Box(80, 80, 120, 120),
    Box(80, 0, 100, 20), Box(20, 0, 40, 100) }

SourcePoints == {[x |-> 0, y |-> 0]}

TargetPoints == {[x |-> 100, y |-> 100], [x |-> 100, y |-> 0], [x |-> 0, y |-> 60]}

\* keyShapeStyle.controlPoints: undefined, empty, one point, two points.
ControlPointsGiven ==
  { <<>>, <<<<>>>>, <<<<[x |-> 100, y |-> 0]>>>>,
    <<<<[x |-> 40, y |-> 0], [x |-> 40, y |-> 100]>>>> }

\* keyShapeStyle.routeCfg: undefined, or with or without a name.
RouteCfgsGiven ==
  {<<>>} \cup {<<[name |-> n, enableObstacleAvoidance |-> b]>> :
                 n \in {<<>>, <<"orth">>, <<"er">>}, b \in BOOLEAN}

NodeMaps ==
  {[n \in {"a", "b", "c"} |->
      CASE n = "a" -> Box(-20, -20, 0, 0)
        [] n = "b" -> Box(t.x, t.y, t.x + 20, t.y + 20)
        [] OTHER -> c] : t \in TargetPoints, c \in ObstacleBoxes}

\* A polyline edge with its merged styles and the node map it routes in.
EdgeInputs ==
  [ keyShapeStyle : [controlPoints : ControlPointsGiven, routeCfg : RouteCfgsGiven,
                     radius : {0}, offset : {2}],
    nodeMap : NodeMaps,
    sourcePoint : SourcePoints,
    targetPoint : TargetPoints ]

\* The edge is drawn; choice is what the router comes to when it is called.
DrawEdge(choice) ==
  /\ drawLog' = <<DrawKeyShape(edge, EdgeModel, edge.sourcePoint, edge.targetPoint, choice)>>
  /\ UNCHANGED <<passed, progVars, envVars, last, threw, showLog, emitted, callLog,
                 nearLog, hit, edge>>

\* Node c is moved: the node map of the edge has its new box, the edge is not
\* yet drawn again.
MoveObstacle(box) ==
  /\ edge.nodeMap["c"] # box
  /\ edge' = [edge EXCEPT !.nodeMap["c"] = box]
  /\ drawLog' = <<>>
  /\ UNCHANGED <<passed, progVars, envVars, last, threw, showLog, emitted, callLog,
                 nearLog, hit>>

NextEdge ==
  \/ \E choice \in RouterChoices : DrawEdge(choice)
  \/ \E box \in ObstacleBoxes : MoveObstacle(box)

InitEdge ==
  /\ passed \in {g \in PlainOptions : g.enableTransient /\ g.updateComboStructure
                                       /\ g.throttle = DefaultThrottle}
  /\ Constructed
  /\ edge \in {e \in EdgeInputs : e.nodeMap["b"].minX = e.targetPoint.x
                                  /\ e.nodeMap["b"].minY = e.targetPoint.y}
  /\ drawLog = <<>>

SpecEdge == InitEdge /\ [][NextEdge]_vars

\* ------------------------------------------------------------ the claims

\* The snapshot the drag of the current gesture started with.
Dragged == IF dragSnap = <<>> THEN <<>> ELSE dragSnap[1]

\* A drag of the first gesture, without Escape, was released and all its
\* pointer-up callbacks have run.
SettledFirst ==
  /\ last = "settle" /\ settleQ = <<>>
  /\ btn = "up" /\ gestures = 1 /\ escapes = 0 /\ dragSnap # <<>>

\* C1: once the settle callbacks of a drag gesture have run, every node, edge
\* and combo has exactly the visible sub-shapes it had before pointer-down.
C1_IdempotentRestore == SettledFirst => graph.visible = preVisible

\* C2: no id is shown twice by one restore pass of a settle callback.
C2_ExactlyOnceRestore ==
  last = "settle" =>
    \A i, j \in 1..Len(showLog) :
      (i < j /\ showLog[i].pass > 0 /\ showLog[i].pass = showLog[j].pass)
        => showLog[i].id # showLog[j].id

\* C3: every show call that restores a hidden item, in a move, at settle or
\* on Escape, carries a set of sub-shape ids; none is made without one.
C3_RestoreCarriesCachedSet ==
  \A i \in 1..Len(showLog) : showLog[i].shapeIds # UndefShapes

\* C4: after Escape was pressed while dragging with transient and delegate
\* off, every dragged node is at its snapshot position, and stays there when
\* a throttled call that was pending fires.
C4_EscapeRollback ==
  (cancelled /\ ~EnableTransient /\ ~options.enableDelegate) =>
    \A i \in 1..Len(Dragged) :
      graph.pos[Dragged[i].id] = [x |-> Dragged[i].x, y |-> Dragged[i].y]

\* C5: an Escape pressed after a pointer-down runs the cancellation path to
\* its end without an error, and the machine is Idle afterwards.
C5_EscapeRunsToIdle ==
  (last = "onKeydown" /\ gestures > 0) =>
    ~threw /\ originPositions = <<>> /\ pointerDown = <<>> /\ ~dragging

\* C6: while Armed, a pointermove under 1 pixel from the pointer-down position
\* in both axes changes nothing of the program; a move of at least 1 pixel in
\* either axis sets the dragging flag.
C6_ThresholdGating ==
  [][(last' = "onPointerMove" /\ pointerDown # <<>> /\ ~dragging) =>
       LET dx == Abs(pointerDown[1].x - at'.x)
           dy == Abs(pointerDown[1].y - at'.y)
       IN IF dx < Scale /\ dy < Scale
          THEN UNCHANGED progVars /\ ~threw'
          ELSE dragging']_vars

\* C6 witness: a move half a pixel from the pointer-down position was handled
\* while Armed.
C6_Witness ==
  /\ last = "onPointerMove" /\ pointerDown # <<>> /\ ~dragging
  /\ Abs(pointerDown[1].x - at.x) < Scale /\ Abs(pointerDown[1].y - at.y) < Scale
  /\ at # pointerDown[1]

\* C7: with transient disabled and throttle = 0, after the release every
\* dragged node is at its snapshot position plus the release position minus
\* the drag reference point.
C7_CommittedPosition ==
  (last = "release" /\ gestures = 1 /\ escapes = 0 /\ dragSnap # <<>>
     /\ ~EnableTransient /\ options.throttle = 0) =>
    \A i \in 1..Len(Dragged) :
      graph.pos[Dragged[i].id] = [x |-> Dragged[i].x + (at.x - originX[1]),
                                  y |-> Dragged[i].y + (at.y - originY[1])]

\* C8: with throttle > 0, once the gesture has settled every dragged node is
\* where a pointer-up handler of the release put it: at its snapshot position
\* plus the delta that handler computed from its event.
C8_TrailingDelivery ==
  (SettledFirst /\ ~EnableTransient /\ options.throttle > 0) =>
    \E e \in {at} \cup DownPoints :
      \A i \in 1..Len(Dragged) :
        graph.pos[Dragged[i].id] =
          [x |-> Dragged[i].x + (e.x - originX[1]) + UpOffset,
           y |-> Dragged[i].y + (e.y - originY[1]) + UpOffset]

C10_SessionCleared ==
  (last = "settle" /\ settleQ = <<>> /\ btn = "up" /\ escapes = 0 /\ dragSnap # <<>>) =>
    /\ pointerDown = <<>> /\ ~dragging
    /\ selectedNodeIds = <<>> /\ originPositions = <<>>
    /\ hiddenEdges = <<>> /\ hiddenRelatedNodes = <<>>
    /\ hiddenNearEdges = <<>> /\ hiddenNearEdgesCache = <<>>
    /\ hiddenComboTreeItems = <<>>
    /\ hiddenShapeCache = EmptyCache

\* C11: after Escape was handled during a drag the session is cleared:
\* pointerDown is unset, dragging is false, and the selection, the snapshot,
\* the hidden-item sets and the shape cache are empty.
C11_EscapeClearsSession ==
  (last = "onKeydown" /\ cancelled) =>
    /\ pointerDown = <<>> /\ ~dragging
    /\ selectedNodeIds = <<>> /\ originPositions = <<>>
    /\ hiddenEdges = <<>> /\ hiddenRelatedNodes = <<>>
    /\ hiddenNearEdges = <<>> /\ hiddenComboTreeItems = <<>>
    /\ hiddenShapeCache = EmptyCache

\* C12: a gesture cancelled by Escape emits no completion event, neither in
\* the Escape handler nor in the release that ends the gesture (stated for the
\* first gesture, where every emitted event belongs to that gesture).
C12_CancelledNeverEmits ==
  (gestures = 1 /\ cancelled) => emitted = <<>>

\* C13: with a non-empty eventName a completed drag gesture has emitted the
\* completion event exactly once, carrying exactly the ids of the snapshot.
C13_EmitsExactlyOnce ==
  (SettledFirst /\ options.eventName # "") => Concat(settled) = <<Ids(Dragged)>>

\* ------------------------------------------------- any mode options

\* The constructor is called with any combination of enableTransient,
\* enableDelegate and hideRelatedEdges, with the throttle of DEFAULT_OPTIONS
\* and updateComboStructure off.
CtorOptions ==
  {g \in GivenOptions : g.throttle = DefaultThrottle /\ ~g.updateComboStructure}

InitCtor == passed \in CtorOptions /\ Constructed /\ NoEdgeDrawn

SpecCtor == InitCtor /\ [][Next]_vars

\* C14: whatever combination of enableDelegate, enableTransient and
\* hideRelatedEdges the constructor is given, it yields options (it rejects
\* none) in which enableDelegate excludes enableTransient and
\* hideRelatedEdges excludes both, so at most one mode is in force.
C14_OptionPrecedence ==
  /\ options \in GivenOptions
  /\ options.enableDelegate => ~options.enableTransient
  /\ options.hideRelatedEdges => (~options.enableDelegate /\ ~options.enableTransient)

\* A drag is running although the constructor was given all three modes.
C14_Witness ==
  /\ passed.enableDelegate /\ passed.enableTransient /\ passed.hideRelatedEdges
  /\ dragging /\ originPositions # <<>>

\* C15: when the drop of a drag on combo c1 has been handled, every node of
\* the drag snapshot has c1 as its parent; and no step of a behaviour without
\* updateComboStructure changes the parent of a node.
C15_DropOnComboReparents ==
  (last = "drop" /\ dropped = <<"combo">> /\ dragSnap # <<>> /\ ~cancelled) =>
    \A i \in 1..Len(Dragged) : graph.parent[Dragged[i].id] = "c1"

\* The node every node:pointerdown of the behaviours is delivered on: it does
\* not hold the selected state.
PressedNode == "a"

\* C16: the snapshot a drag starts with holds the whole selection when the
\* pressed node is selected, and the pressed node alone in every other case.
C16_SelectionResolution ==
  dragSnap # <<>> =>
    Ids(Dragged) = IF PressedNode \in Range(SelectedState)
                   THEN SelectedState ELSE <<PressedNode>>

\* C17: no drop handler calls graph.updateData for the parents of the dragged
\* nodes after it has called onPointerUp, which commits the final positions.
C17_ReparentBeforeFinalize ==
  \A i, j \in 1..Len(callLog) :
    (callLog[i] = "onPointerUp" /\ callLog[j] = "updateData") => j < i

\* The release of the gesture was handled: every event of the release was
\* delivered, and onPointerUp has run, as the handler of node:pointerup or as
\* the document mouseup listener of a gesture that began.
ReleaseHandled ==
  /\ btn = "up" /\ releaseQ = <<>>
  /\ docListeners = <<>>
  /\ (began \/ dropped = <<"node">>)

\* C18: a hit-test that resolves after the release of its gesture was handled
\* (its pointer-up handler has run) is discarded: the drop handler changes no
\* parent and no position and schedules no further pointer-up callback
\* (restore pass, completion event).
C18_LateHitTestDiscarded ==
  [][(last' = "hitTest" /\ ReleaseHandled) =>
       /\ graph'.parent = graph.parent
       /\ graph'.pos = graph.pos
       /\ settleQ' = settleQ]_vars

\* C19: the release events of one gesture collapse into a single restore
\* pass: when the pointer-up callbacks of the gesture have run, one callback
\* has run (one restore pass) and the completion event was emitted at most
\* once.
C19_SingleRestorePass ==
  SettledFirst =>
    /\ Len(settled) = 1
    /\ Len(Concat(settled)) <= 1

\* C20: the trailing call of the throttled moveNodes that fires right after
\* the Escape that cancelled the drag writes no position, draws no transient
\* item and leaves the state the Escape handler wrote as it is.
C20_PendingMoveSuperseded ==
  [][(last = "onKeydown" /\ cancelled /\ last' = "throttle") =>
       /\ graph' = graph
       /\ originPositions' = originPositions
       /\ hiddenShapeCache' = hiddenShapeCache]_vars

\* Where node id is displayed: at its transient copy in transient mode, at
\* its real position otherwise.
Displayed(id) ==
  IF EnableTransient THEN graph.tpos[id] ELSE <<graph.pos[id]>>

\* A drag goes on, not cancelled (no pointer-up and no Escape since it
\* started), the last step was a pointermove or the throttle timer, and no
\* call waits for the throttle timer.
MovesDelivered ==
  /\ btn = "down" /\ ~cancelled
  /\ dragSnap # <<>>
  /\ last \in {"onPointerMove", "throttle"}
  /\ throttledMoveNodes.pending = <<>>

\* C21: with delegate mode off, once the first qualifying move of a drag was
\* handled, and whenever no call waits for the throttle timer (always so with
\* throttle = 0), every dragged node is displayed at its snapshot position
\* plus the delta of the latest pointer position from the reference point.
C21_LeadingTrailing ==
  (MovesDelivered /\ ~options.enableDelegate) =>
    \A i \in 1..Len(Dragged) :
      Displayed(Dragged[i].id) =
        <<[x |-> Dragged[i].x + (at.x - originX[1]),
           y |-> Dragged[i].y + (at.y - originY[1])]>>

\* C22: the move that starts a drag leaves a snapshot with exactly one entry
\* for every selected id that has node data, in their order, and does not
\* end by throwing when a selected id has none.
C22_MissingEntitySkipped ==
  (last = "onPointerMove" /\ btn = "down" /\ dragging /\ dragSnap # <<>>) =>
    /\ Ids(Dragged) = SelectSeq(selectedNodeIds, HasNodeData)
    /\ ~threw

\* A move of a drag in transient mode, with a dragged node that prevents
\* polyline overlap, was processed: its near-edge query was made.
NearProcessed ==
  /\ last = "onPointerMove" /\ ~threw /\ nearLog # <<>>
  /\ \E i \in 1..Len(selectedNodeIds) : selectedNodeIds[i] \in PreventOverlapNodes

\* The polylines with obstacle avoidance among what the query returned.
NearNow == SelectSeq(nearLog[1], LAMBDA e : e \in AvoidEdges)

\* C23: after a processed move of such a drag the edges hidden as near edges
\* are the eligible edges of the query that are not hidden as related edges;
\* each of them has a transient copy and is hidden; each edge of the previous
\* near set that is not among them has no transient copy and is visible.
C23_NearEdgeRerouting ==
  NearProcessed =>
    /\ Range(hiddenNearEdges) = Range(NearNow) \ Range(hiddenEdges)
    /\ \A e \in Range(hiddenNearEdges) :
         e \in graph.transients /\ graph.visible[e] = {}
    /\ \A e \in Range(hiddenNearEdgesCache) \ Range(hiddenNearEdges) :
         e \notin graph.transients /\ graph.visible[e] # {}

\* C23 witness: an edge that was near at the previous move is near no more.
C23_Witness ==
  /\ NearProcessed
  /\ "bc" \in Range(hiddenNearEdgesCache) /\ "bc" \notin Range(hiddenNearEdges)

\* The button is down after a pointer-down that shouldBegin turned away.
Rejected == btn = "down" /\ ~began

\* C24: a pointer-down that shouldBegin rejects does not arm the machine: no
\* pointer position is recorded, the drag flag stays off, and a pointermove
\* of that gesture changes nothing of the program's state: it hides, shows
\* and draws no item and moves no node.
C24_RejectedDownDoesNotArm ==
  [][Rejected' =>
       /\ pointerDown' = <<>>
       /\ ~dragging'
       /\ (last' = "onPointerMove" =>
             /\ progVars' = progVars
             /\ showLog' = <<>> /\ emitted' = <<>> /\ ~threw')]_vars

C24_Witness ==
  /\ Rejected /\ last = "onPointerMove"
  /\ Abs(at.x) >= Scale
  /\ moves >= 2

\* The calls of the last drawKeyShape of the edge.
Drawn == drawLog[1]

\* The edge has explicit control points, at least one.
ExplicitControlPoints ==
  edge.keyShapeStyle.controlPoints # <<>> /\ edge.keyShapeStyle.controlPoints[1] # <<>>

\* The style of the edge configures the orthogonal strategy with avoidance.
AvoidanceStrategy ==
  /\ edge.keyShapeStyle.routeCfg # <<>>
  /\ edge.keyShapeStyle.routeCfg[1].name = <<"er">>

\* C25: drawing an edge skips the router, and hands the builder the source
\* point, the control points and the target point, exactly when the edge has
\* explicit control points and its strategy is not the orthogonal one with
\* avoidance; in every other case the router is called with the ids of the
\* source and target nodes and the node map, and the builder gets the path the
\* router returns.
C25_RendererDispatch ==
  drawLog # <<>> =>
    /\ (Drawn.router = <<>>) <=> (ExplicitControlPoints /\ ~AvoidanceStrategy)
    /\ Drawn.router = <<>> =>
         Drawn.builder.points =
           <<edge.sourcePoint>> \o edge.keyShapeStyle.controlPoints[1] \o <<edge.targetPoint>>
    /\ Drawn.router # <<>> =>
         LET call == Drawn.router[1]
         IN /\ call.sourceNodeId = EdgeModel.source
            /\ call.targetNodeId = EdgeModel.target
            /\ call.nodeMap = edge.nodeMap
            /\ Head(call.points) = edge.sourcePoint
            /\ call.points[Len(call.points)] = edge.targetPoint
            /\ Drawn.builder.points = call.returned

\* C25 witness: an edge with two control points and the strategy 'orth' was
\* drawn without the router.
C25_Witness ==
  /\ drawLog # <<>> /\ Drawn.router = <<>>
  /\ Len(Drawn.builder.points) = 4
  /\ edge.keyShapeStyle.routeCfg # <<>> /\ edge.keyShapeStyle.routeCfg[1].name = <<"orth">>

\* C28: the settle callback of the pointer-up of one gesture, running while
\* the next gesture is dragging, leaves that drag alone: its snapshot, its
\* transient primitives and its hidden-item sets are as they were.
C28_StaleSettleIsolated ==
  [][(last' = "settle" /\ btn = "down" /\ dragging /\ dragSnap # <<>>) =>
       /\ originPositions' = originPositions
       /\ graph'.transients = graph.transients
       /\ graph'.tpos = graph.tpos
       /\ graph'.visible = graph.visible
       /\ hiddenEdges' = hiddenEdges
       /\ hiddenRelatedNodes' = hiddenRelatedNodes
       /\ hiddenNearEdges' = hiddenNearEdges
       /\ hiddenComboTreeItems' = hiddenComboTreeItems]_vars

\* C29: when the button is released on a drag with a non-empty snapshot, the
\* pointer-up handlers of the release, the one the document mouseup listener
\* calls included, leave every snapshot node at its snapshot position plus
\* the displacement of the release point from the drag reference point (here
\* to within the hundredth of a pixel the handler adds).
C29_ReleaseCommitsAtReleasePoint ==
  (last = "release" /\ gestures = 1 /\ escapes = 0 /\ Dragged # <<>> /\ originX # <<>>) =>
    \A i \in 1..Len(Dragged) :
      /\ Abs(graph.pos[Dragged[i].id].x - (Dragged[i].x + (at.x - originX[1]))) <= UpOffset
      /\ Abs(graph.pos[Dragged[i].id].y - (Dragged[i].y + (at.y - originY[1]))) <= UpOffset

\* C30: the release (pointer-up or click) of a gesture that made no
\* qualifying move is not the end of a drag: it changes no node position,
\* hides, shows and draws nothing, emits no completion event and schedules no
\* callback that would.
C30_ClickIsNoDrag ==
  [][(last' = "release" /\ began /\ dragSnap = <<>>) =>
       /\ graph' = graph
       /\ showLog' = <<>>
       /\ emitted' = <<>>
       /\ settleQ' = settleQ]_vars

\* The ids of the items the drag start hides through its four sets.
HiddenAtStart ==
  (IF EnableTransient THEN Range(selectedNodeIds) ELSE {})
    \cup Range(hiddenEdges) \cup Range(hiddenRelatedNodes) \cup Range(hiddenComboTreeItems)

\* C31: while the first drag goes on, the sub-shape set cached for every item
\* the drag start hid (dragged nodes, related edges, neighbouring nodes, combo
\* tree items) is the set that was visible at pointer-down, in transient mode
\* too.
C31_CacheReadBeforeHide ==
  (gestures = 1 /\ escapes = 0 /\ btn = "down" /\ dragging /\ dragSnap # <<>> /\ ~threw) =>
    \A id \in HiddenAtStart :
      id \in DOMAIN hiddenShapeCache => hiddenShapeCache[id] = preVisible[id]

\* Every node of the snapshot snap is displayed in graph g (its transient copy
\* in transient mode, its real position otherwise) at its snapshot position
\* moved by (dx, dy).
ShownAt(g, snap, dx, dy) ==
  \A i \in 1..Len(snap) :
    (IF EnableTransient THEN g.tpos[snap[i].id] ELSE <<g.pos[snap[i].id]>>)
      = <<[x |-> snap[i].x + dx, y |-> snap[i].y + dy]>>

\* C32: the reference point of a drag is the pointer position of the move that
\* starts it, not the pointer-down position: that move applies the delta
\* (0,0); no later move of the drag changes the reference point, and with
\* throttle 0 each applies its own position minus the reference point; the
\* pointer-up handler commits the position of its event minus the same
\* reference point (plus the hundredth of a pixel it adds).
C32_ReferencePoint ==
  [][/\ (last' = "onPointerMove" /\ ~dragging /\ dragging' /\ ~threw') =>
          /\ originX' = <<at'.x>> /\ originY' = <<at'.y>>
          /\ ~options.enableDelegate => ShownAt(graph', originPositions', 0, 0)
     /\ (last' = "onPointerMove" /\ dragging /\ originX # <<>>) =>
          /\ originX' = originX /\ originY' = originY
          /\ (originPositions # <<>> /\ options.throttle = 0 /\ ~options.enableDelegate
                /\ pointerDown # <<>>
                /\ ~(Abs(pointerDown[1].x - at'.x) < Scale
                       /\ Abs(pointerDown[1].y - at'.y) < Scale)) =>
               ShownAt(graph', originPositions, at'.x - originX[1], at'.y - originY[1])
     /\ (last' = "release" /\ dragging /\ originX # <<>> /\ originPositions # <<>>) =>
          \E e \in {at} \cup DownPoints :
            \A i \in 1..Len(originPositions) :
              graph'.pos[originPositions[i].id] =
                [x |-> originPositions[i].x + (e.x - originX[1]) + UpOffset,
                 y |-> originPositions[i].y + (e.y - originY[1]) + UpOffset]
    ]_vars

\* C32 witness: the drag started at a move away from the pointer-down position
\* and a later move was applied from that reference point.
C32_Witness ==
  /\ last = "onPointerMove" /\ dragging /\ btn = "down" /\ gestures = 1 /\ escapes = 0
  /\ originX # <<>> /\ pointerDown # <<>> /\ Dragged # <<>>
  /\ (originX[1] # pointerDown[1].x \/ originY[1] # pointerDown[1].y)
  /\ (at.x # originX[1] \/ at.y # originY[1])
  /\ ~options.enableDelegate
  /\ ShownAt(graph, Dragged, at.x - originX[1], at.y - originY[1])

\* C33: with throttle 0 and delegate mode off, after every pointermove of the
\* first drag the dragged nodes are displayed at their snapshot position plus
\* the pointer position minus the reference point, also when the move brought
\* the pointer back to within 1 pixel of the pointer-down position.
C33_EveryMoveApplied ==
  (last = "onPointerMove" /\ gestures = 1 /\ escapes = 0 /\ btn = "down" /\ dragging
     /\ ~threw /\ Dragged # <<>> /\ originX # <<>>
     /\ options.throttle = 0 /\ ~options.enableDelegate) =>
    ShownAt(graph, Dragged, at.x - originX[1], at.y - originY[1])

\* C34: in every state the edges hidden as near edges and the edges hidden as
\* related edges of the dragged nodes are disjoint.
C34_NearAndRelatedDisjoint ==
  Range(hiddenNearEdges) \cap Range(hiddenEdges) = {}

\* The items under the pointer that the dragged nodes can be dropped on: the
\* nodes and combos the last hit-test found, the dragged nodes left out,
\* topmost first.
DropTargets ==
  SelectSeq(hit[1], LAMBDA id : id \notin Range(Ids(Dragged))
                                /\ (id \in Combos \/ HasNodeData(id)))

\* The drop of the first gesture's drag on a node was handled: the hit-test of
\* onDropNode has resolved, the topmost item that is not dragged being a node.
DroppedOnNode ==
  /\ last = "hitTest" /\ dropped = <<"node">> /\ gestures = 1
  /\ Dragged # <<>> /\ hit # <<>>
  /\ DropTargets # <<>> /\ HasNodeData(DropTargets[1])

\* C35: after dragged nodes were dropped on a node A, every dragged node has
\* the parent of A (none when A has none), the dragged nodes themselves not
\* counting as the drop target; when every dragged node had that parent
\* already, no update is made.
C35_DropOnNodeReparents ==
  DroppedOnNode =>
    /\ \A i \in 1..Len(Dragged) :
         graph.parent[Dragged[i].id] = graph.parent[DropTargets[1]]
    /\ (\A i \in 1..Len(Dragged) : InitParent[Dragged[i].id] = InitParent[DropTargets[1]])
         => "updateData" \notin Range(callLog)

====
